---- MODULE Spec2Model ----
(***************************************************************************)
(* Model of src/main.py: a Telegram bot that relays text messages to a     *)
(* chat-completion provider, keeping a bounded per-user message history.   *)
(*                                                                         *)
(* Every inbound message is handled by one coroutine (a "task").  A task   *)
(* runs without interruption between two awaits; each action below is one  *)
(* such uninterrupted stretch of a handler.  The awaits are                *)
(*   bot.send_chat_action        (line 167)                                *)
(*   client.chat.completions.create (line 94)                              *)
(*   message.answer              (lines 132, 149, 160, 173)                *)
(* The chat transport is taken to deliver what it is given; the provider   *)
(* may answer, answer malformed, or fail.                                  *)
(***************************************************************************)
EXTENDS Naturals, Sequences, FiniteSets, TLC

\* ------------------------------------------------------------- bounds
\* Inbound messages delivered in one run of Spec (two users).
MaxMsgs == 4
\* Inbound messages delivered in one run of SpecDeep (one user, so that the
\* history fills up and overflows).
MaxDeepMsgs == 6
\* Inbound messages delivered in one run of SpecSeq (handlers never overlap).
MaxSeqMsgs == 11

\* Inbound messages delivered in one run of SpecRace (every provider call
\* returns a text, handlers overlap).
MaxRaceMsgs == 3

\* ------------------------------------------------- program constants
\* deque(maxlen=10)
MAXLEN == 10

\* Handlers that can be in flight at once.
Tasks == {1, 2}
Users == {"u1", "u2"}
DeepUsers == {"u1"}
\* Texts a user types that are neither a command nor empty.
Texts == {"a"}
\* Texts the provider generates.
Replies == {"x"}
\* Texts typed in SpecSeq.
SeqTexts == {"a", "b"}

\* Python's None (message.text of a non-text message, or the content of a
\* completion choice that carries no text).  Every other value is a str.
None == "<None>"
EMPTY == ""
START == "/start"
HELP == "/help"

welcome_text == "welcome"
help_text == "help"
corrective_prompt == "send text"
apology == "sorry"

IsStr(v) == v # None

\* What the transport can deliver as message.text.
NonTexts == {None, EMPTY}

system_message == [role |-> "system", content |-> "system prompt"]
UserEntry(text) == [role |-> "user", content |-> text]
AssistantEntry(text) == [role |-> "assistant", content |-> text]

\* A provider outcome: the call raised, or returned a list of choices, each
\* with its message.content.
RaisedResponse == [outcome |-> "raised", choices |-> <<>>]
ChoicesResponse(cs) == [outcome |-> "returned", choices |-> cs]
\* No provider call has ended yet.
NoResponse == [outcome |-> "none", choices |-> <<>>]
OkResponses == {ChoicesResponse(<<r>>) : r \in Replies}
Responses == OkResponses \cup {RaisedResponse, ChoicesResponse(<<>>), ChoicesResponse(<<None>>)}

\* Texts the provider generates in SpecRace.
RaceReplies == {"x", "y"}
RaceResponses == {ChoicesResponse(<<r>>) : r \in RaceReplies}

NoMessage == [user_id |-> "", text |-> None]

Last(s) == s[Len(s)]

VARIABLES
    user_messages,  \* the store: user_id -> history, for the users that have one
    appended,       \* per user, every entry appended since the history was last empty by creation or clear
    pc,             \* per task, where its handler stands
    msg,            \* per task, the inbound message it handles
    messages,       \* per task, the request list submitted to the provider
    response,       \* per task, the provider's outcome
    reply,          \* per task, the text the handler answers with
    sent,           \* per task, the number of replies answered to the conversation
    typing,         \* per task, the typing indicators issued
    delivered       \* inbound messages delivered so far

vars == <<user_messages, appended, pc, msg, messages, response, reply, sent, typing, delivered>>

\* ------------------------------------------------------ the store
\* Mutant: a plain list, with no maxlen.
DequeAppendUnbounded(h, e) == Append(h, e)

\* Mutant: at capacity the newest entry is dropped instead of the oldest.
DequeAppendDropNewest(h, e) ==
    IF Len(h) >= MAXLEN THEN Append(SubSeq(h, 1, Len(h) - 1), e) ELSE Append(h, e)

\* Mutant: at capacity the oldest pair is dropped, not the oldest entry.
DequeAppendDropPair(h, e) ==
    IF Len(h) >= MAXLEN THEN Append(Tail(Tail(h)), e) ELSE Append(h, e)

\* deque.append with maxlen: at capacity the leftmost entry is dropped.
DequeAppend(h, e) ==
    IF Len(h) >= MAXLEN THEN Append(Tail(h), e) ELSE Append(h, e)

\* defaultdict lookup user_messages[user_id]: creates an empty deque when absent.
GetOrCreate(um, user_id) ==
    [u \in DOMAIN um \cup {user_id} |-> IF u \in DOMAIN um THEN um[u] ELSE <<>>]

\* user_messages[user_id].append(entry)
StoreAppend(um, user_id, e) ==
    [GetOrCreate(um, user_id) EXCEPT ![user_id] = DequeAppend(@, e)]

\* Mutant: the membership test is inverted, so a history that exists is
\* never cleared.
StoreClearInverted(um, user_id) ==
    IF user_id \notin DOMAIN um THEN [GetOrCreate(um, user_id) EXCEPT ![user_id] = <<>>] ELSE um

\* Mutant: the whole store's histories are emptied, not the user's.
StoreClearAll(um, user_id) ==
    IF user_id \in DOMAIN um THEN [u \in DOMAIN um |-> <<>>] ELSE um

\* Mutant: the user's history is deleted from the store instead of emptied.
StoreClearDeletes(um, user_id) ==
    [u \in DOMAIN um \ {user_id} |-> um[u]]

\* if user_id in user_messages: user_messages[user_id].clear()
StoreClear(um, user_id) ==
    IF user_id \in DOMAIN um THEN [um EXCEPT ![user_id] = <<>>] ELSE um

\* Mutant: the list is built before the new message is appended.
format_messages_before_append(um, user_id, new_message) ==
    LET um2 == StoreAppend(um, user_id, UserEntry(new_message))
    IN  [store |-> um2, result |-> <<system_message>> \o GetOrCreate(um, user_id)[user_id]]

\* Mutant: the system entry is put after the history, not before it.
format_messages_system_last(um, user_id, new_message) ==
    LET um2 == StoreAppend(um, user_id, UserEntry(new_message))
    IN  [store |-> um2, result |-> um2[user_id] \o <<system_message>>]

\* The store after format_messages_for_api, and the list it returns.
format_messages_for_api(um, user_id, new_message) ==
    LET um2 == StoreAppend(um, user_id, UserEntry(new_message))
    IN  [store |-> um2, result |-> <<system_message>> \o um2[user_id]]

\* `not message.text`
NotText(text) == text = None \/ text = EMPTY

\* response.choices[0].message.content raises on an empty list.
Fails(resp) == resp.outcome = "raised" \/ Len(resp.choices) = 0

History(u) == IF u \in DOMAIN user_messages THEN user_messages[u] ELSE <<>>

\* ------------------------------------------------------ the handlers
Free(t) == pc[t] \in {"idle", "done", "raised"}
\* New messages go to the lowest free task.
Lowest(t) == Free(t) /\ \A s \in Tasks : s < t => ~Free(s)

Begin(t, user_id, text) ==
    /\ Lowest(t)
    /\ msg' = [msg EXCEPT ![t] = [user_id |-> user_id, text |-> text]]
    /\ messages' = [messages EXCEPT ![t] = <<>>]
    /\ response' = [response EXCEPT ![t] = NoResponse]
    /\ sent' = [sent EXCEPT ![t] = 0]
    /\ delivered' = delivered + 1

\* cmd_start up to its await of message.answer.
cmd_start(t, user_id) ==
    /\ Begin(t, user_id, START)
    /\ user_messages' = StoreClear(user_messages, user_id)
    /\ appended' = [appended EXCEPT ![user_id] = <<>>]
    /\ reply' = [reply EXCEPT ![t] = welcome_text]
    /\ typing' = [typing EXCEPT ![t] = 0]
    /\ pc' = [pc EXCEPT ![t] = "answer"]

\* cmd_help up to its await of message.answer.
cmd_help(t, user_id) ==
    /\ Begin(t, user_id, HELP)
    /\ reply' = [reply EXCEPT ![t] = help_text]
    /\ typing' = [typing EXCEPT ![t] = 0]
    /\ pc' = [pc EXCEPT ![t] = "answer"]
    /\ UNCHANGED <<user_messages, appended>>

\* Mutant: the handler looks the user's history up before it tests the
\* text, which creates one in a defaultdict.
handle_text_message_lookup_first(t, user_id, text) ==
    /\ Begin(t, user_id, text)
    /\ IF NotText(text)
       THEN /\ reply' = [reply EXCEPT ![t] = corrective_prompt]
            /\ typing' = [typing EXCEPT ![t] = 0]
            /\ pc' = [pc EXCEPT ![t] = "answer"]
       ELSE /\ reply' = [reply EXCEPT ![t] = None]
            /\ typing' = [typing EXCEPT ![t] = 1]
            /\ pc' = [pc EXCEPT ![t] = "typing"]
    /\ user_messages' = GetOrCreate(user_messages, user_id)
    /\ UNCHANGED appended

\* handle_text_message up to its first await: message.answer of the
\* corrective prompt, or bot.send_chat_action.
handle_text_message(t, user_id, text) ==
    /\ Begin(t, user_id, text)
    /\ IF NotText(text)
       THEN /\ reply' = [reply EXCEPT ![t] = corrective_prompt]
            /\ typing' = [typing EXCEPT ![t] = 0]
            /\ pc' = [pc EXCEPT ![t] = "answer"]
       ELSE /\ reply' = [reply EXCEPT ![t] = None]
            /\ typing' = [typing EXCEPT ![t] = 1]
            /\ pc' = [pc EXCEPT ![t] = "typing"]
    /\ UNCHANGED <<user_messages, appended>>

\* Mutant: a per-user lock is held across the provider call, so a handler
\* waits while another call of the same user is in flight.
get_ai_response_serialized(t) ==
    /\ pc[t] = "typing"
    /\ \A s \in Tasks : pc[s] = "create" => msg[s].user_id # msg[t].user_id
    /\ LET f == format_messages_for_api(user_messages, msg[t].user_id, msg[t].text)
       IN  /\ user_messages' = f.store
           /\ messages' = [messages EXCEPT ![t] = f.result]
    /\ appended' = [appended EXCEPT ![msg[t].user_id] = Append(@, UserEntry(msg[t].text))]
    /\ pc' = [pc EXCEPT ![t] = "create"]
    /\ UNCHANGED <<msg, response, reply, sent, typing, delivered>>

\* send_chat_action returned: get_ai_response runs up to its await of
\* client.chat.completions.create.
get_ai_response(t) ==
    /\ pc[t] = "typing"
    /\ LET f == format_messages_for_api(user_messages, msg[t].user_id, msg[t].text)
       IN  /\ user_messages' = f.store
           /\ messages' = [messages EXCEPT ![t] = f.result]
    /\ appended' = [appended EXCEPT ![msg[t].user_id] = Append(@, UserEntry(msg[t].text))]
    /\ pc' = [pc EXCEPT ![t] = "create"]
    /\ UNCHANGED <<msg, response, reply, sent, typing, delivered>>

\* What get_ai_response returns for a provider outcome.
Returned(resp) == IF Fails(resp) THEN apology ELSE resp.choices[1]

\* Mutant: the apology is recorded as the assistant's turn.
StoreAfterRecordsApology(um, user_id, resp) ==
    StoreAppend(um, user_id, AssistantEntry(IF Fails(resp) THEN apology ELSE resp.choices[1]))

\* Mutant: the reply is returned but never recorded.
StoreAfterForgetsReply(um, user_id, resp) == um

\* Mutant: a reply is recorded only if the history still holds entries, so
\* a reset during the call discards it.
StoreAfterSkipsCleared(um, user_id, resp) ==
    IF Fails(resp) \/ um[user_id] = <<>> THEN um
    ELSE StoreAppend(um, user_id, AssistantEntry(resp.choices[1]))

\* The store after the provider call of a task for user_id ended with resp.
StoreAfter(um, user_id, resp) ==
    IF Fails(resp) THEN um ELSE StoreAppend(um, user_id, AssistantEntry(resp.choices[1]))

\* message.answer(text) as called: a text that is not a str is refused
\* before anything is sent, and the handler ends with that error.
AnswerPc(text) == IF IsStr(text) THEN "answer" ELSE "raised"

\* The provider call ended: the rest of get_ai_response, and
\* handle_text_message up to its await of message.answer.
create_returns(t, resp) ==
    /\ pc[t] = "create"
    /\ response' = [response EXCEPT ![t] = resp]
    /\ user_messages' = StoreAfter(user_messages, msg[t].user_id, resp)
    /\ appended' = IF Fails(resp) THEN appended
                   ELSE [appended EXCEPT ![msg[t].user_id] = Append(@, AssistantEntry(resp.choices[1]))]
    /\ reply' = [reply EXCEPT ![t] = Returned(resp)]
    /\ pc' = [pc EXCEPT ![t] = AnswerPc(Returned(resp))]
    /\ UNCHANGED <<msg, messages, sent, typing, delivered>>

\* message.answer returned: the reply is in the conversation and the handler
\* is over (its locals are gone).
answer(t) ==
    /\ pc[t] = "answer"
    /\ sent' = [sent EXCEPT ![t] = @ + 1]
    /\ pc' = [pc EXCEPT ![t] = "done"]
    /\ msg' = [msg EXCEPT ![t] = NoMessage]
    /\ messages' = [messages EXCEPT ![t] = <<>>]
    /\ response' = [response EXCEPT ![t] = NoResponse]
    /\ reply' = [reply EXCEPT ![t] = None]
    /\ typing' = [typing EXCEPT ![t] = 0]
    /\ UNCHANGED <<user_messages, appended, delivered>>

\* ------------------------------------------------------ specifications
Init ==
    /\ user_messages = << >>
    /\ appended = [u \in Users |-> <<>>]
    /\ pc = [t \in Tasks |-> "idle"]
    /\ msg = [t \in Tasks |-> NoMessage]
    /\ messages = [t \in Tasks |-> <<>>]
    /\ response = [t \in Tasks |-> NoResponse]
    /\ reply = [t \in Tasks |-> None]
    /\ sent = [t \in Tasks |-> 0]
    /\ typing = [t \in Tasks |-> 0]
    /\ delivered = 0

Next ==
    \/ delivered < MaxMsgs /\ \E t \in Tasks, u \in Users : cmd_start(t, u)
    \/ delivered < MaxMsgs /\ \E t \in Tasks, u \in Users : cmd_help(t, u)
    \/ delivered < MaxMsgs /\ \E t \in Tasks, u \in Users, text \in Texts \cup NonTexts :
            handle_text_message(t, u, text)
    \/ \E t \in Tasks : get_ai_response(t)
    \/ \E t \in Tasks, resp \in Responses : create_returns(t, resp)
    \/ \E t \in Tasks : answer(t)

Spec == Init /\ [][Next]_vars

\* One user, so that more messages reach the same history.
NextDeep ==
    \/ delivered < MaxDeepMsgs /\ \E t \in Tasks, u \in DeepUsers : cmd_start(t, u)
    \/ delivered < MaxDeepMsgs /\ \E t \in Tasks, u \in DeepUsers : cmd_help(t, u)
    \/ delivered < MaxDeepMsgs /\ \E t \in Tasks, u \in DeepUsers, text \in Texts \cup NonTexts :
            handle_text_message(t, u, text)
    \/ \E t \in Tasks : get_ai_response(t)
    \/ \E t \in Tasks, resp \in Responses : create_returns(t, resp)
    \/ \E t \in Tasks : answer(t)

SpecDeep == Init /\ [][NextDeep]_vars

\* Every handler completes before the next message arrives, and every
\* provider call returns a text.
AllFree == \A t \in Tasks : Free(t)

NextSeq ==
    \/ AllFree /\ delivered < MaxSeqMsgs /\ \E t \in Tasks, u \in DeepUsers : cmd_start(t, u)
    \/ AllFree /\ delivered < MaxSeqMsgs /\ \E t \in Tasks, u \in DeepUsers : cmd_help(t, u)
    \/ AllFree /\ delivered < MaxSeqMsgs /\ \E t \in Tasks, u \in DeepUsers, text \in SeqTexts \cup NonTexts :
            handle_text_message(t, u, text)
    \/ \E t \in Tasks : get_ai_response(t)
    \/ \E t \in Tasks, resp \in OkResponses : create_returns(t, resp)
    \/ \E t \in Tasks : answer(t)

SpecSeq == Init /\ [][NextSeq]_vars

\* Handlers overlap and every provider call returns a text; texts and
\* replies are told apart.
NextRace ==
    \/ delivered < MaxRaceMsgs /\ \E t \in Tasks, u \in DeepUsers : cmd_start(t, u)
    \/ delivered < MaxRaceMsgs /\ \E t \in Tasks, u \in DeepUsers : cmd_help(t, u)
    \/ delivered < MaxRaceMsgs /\ \E t \in Tasks, u \in DeepUsers, text \in SeqTexts \cup NonTexts :
            handle_text_message(t, u, text)
    \/ \E t \in Tasks : get_ai_response(t)
    \/ \E t \in Tasks, resp \in RaceResponses : create_returns(t, resp)
    \/ \E t \in Tasks : answer(t)

SpecRace == Init /\ [][NextRace]_vars


\* ------------------------------------------------------------ claims
\* The steps of a task, as seen from outside.
\* Task t appended the user entry of its message (get_ai_response began).
AppendedUser(t) == pc[t] = "typing" /\ pc'[t] = "create"
\* The provider call of task t ended.
CallEnded(t) == pc[t] = "create" /\ pc'[t] # "create"
\* The history of u as extended by e, the oldest entry evicted at capacity.
Fifo(h, e) == IF Len(h) = MAXLEN THEN SubSeq(h, 2, MAXLEN) \o <<e>> ELSE h \o <<e>>

\* C1: in every reachable state every user's history holds at most 10
\* entries, whatever appends and resets produced it.
C1_LengthAtMostTen ==
    \A u \in DOMAIN user_messages : Len(user_messages[u]) <= MAXLEN

\* C1 witness: a full history to which more than 10 entries were appended.
C1_Witness ==
    \E u \in DOMAIN user_messages :
        Len(user_messages[u]) = MAXLEN /\ Len(appended[u]) > MAXLEN

\* C2: every append is strict FIFO: at length 10 the result is h[2..10]
\* followed by the new entry, below 10 it is h followed by the new entry.
C2_StrictFifo ==
    [][\A t \in Tasks :
        /\ AppendedUser(t) =>
               user_messages'[msg[t].user_id]
                   = Fifo(History(msg[t].user_id), UserEntry(msg[t].text))
        /\ (CallEnded(t) /\ ~Fails(response'[t])) =>
               user_messages'[msg[t].user_id]
                   = Fifo(History(msg[t].user_id), AssistantEntry(response'[t].choices[1]))
      ]_vars

\* C2 witness: an assistant entry was appended to a full history, which
\* now starts with the entry that was second.
C2_Witness ==
    \E t \in Tasks :
        /\ pc[t] = "answer" /\ response[t].outcome = "returned"
        /\ Len(appended[msg[t].user_id]) = MAXLEN + 1
        /\ History(msg[t].user_id) = SubSeq(appended[msg[t].user_id], 2, MAXLEN + 1)

\* C3: the request submitted to the provider is the system entry followed
\* by the user's history as it stands right after user(T) was appended, so
\* it ends with user(T); for a fresh user it is [system, user(T)].
C3_RequestIsSystemPlusHistory ==
    [][\A t \in Tasks : AppendedUser(t) =>
        /\ messages'[t] = <<system_message>> \o user_messages'[msg[t].user_id]
        /\ Last(messages'[t]) = UserEntry(msg[t].text)
        /\ (msg[t].user_id \notin DOMAIN user_messages =>
                messages'[t] = <<system_message, UserEntry(msg[t].text)>>)
      ]_vars

\* C3 witness: a call in flight for a user who had no history, while
\* another handler is in flight.
C3_Witness ==
    \E t, s \in Tasks :
        /\ t # s /\ ~Free(s)
        /\ pc[t] = "create"
        /\ messages[t] = <<system_message, UserEntry(msg[t].text)>>
        /\ Len(appended[msg[t].user_id]) = 1

C5_SuccessRecordsReply ==
    [][\A t \in Tasks :
        (CallEnded(t) /\ ~Fails(response'[t]) /\ IsStr(response'[t].choices[1])) =>
            /\ reply'[t] = response'[t].choices[1]
            /\ pc'[t] = "answer"
            /\ Last(user_messages'[msg[t].user_id]) = AssistantEntry(response'[t].choices[1])
      ]_vars

\* C5 witness: a call returned a text while another handler of the same
\* user was in flight.
C5_Witness ==
    \E t, s \in Tasks :
        /\ t # s /\ pc[s] = "create" /\ msg[s].user_id = msg[t].user_id
        /\ pc[t] = "answer" /\ response[t].outcome = "returned"
        /\ reply[t] \in Replies
        /\ Last(History(msg[t].user_id)) = AssistantEntry(reply[t])

\* C6: get_ai_response always returns a text, whatever the provider did.
\* (The code returns None for a choice whose content is None.)
C6_AlwaysReturnsText ==
    \A t \in Tasks : response[t].outcome # "none" => IsStr(reply[t])

\* C7: a handler that is over has sent exactly one reply, never zero and
\* never two.  (The handler of a message whose reply is None ends with an
\* error and has sent nothing.)
C7_ExactlyOneReply ==
    \A t \in Tasks : pc[t] \in {"done", "raised"} => sent[t] = 1

\* A new message was dispatched to cmd_start in task t.
StartStep(t) == Free(t) /\ pc'[t] = "answer" /\ msg'[t].text = START

\* C8: right after the reset handler ran for u, u's history is empty, and
\* the next append to an empty history yields exactly that one entry.
C8_ResetClears ==
    [][\A t \in Tasks :
        /\ StartStep(t) =>
               /\ DOMAIN user_messages' = DOMAIN user_messages
               /\ msg'[t].user_id \in DOMAIN user_messages' =>
                      user_messages'[msg'[t].user_id] = <<>>
        /\ (AppendedUser(t) /\ History(msg[t].user_id) = <<>>) =>
               user_messages'[msg[t].user_id] = <<UserEntry(msg[t].text)>>
        /\ (CallEnded(t) /\ ~Fails(response'[t]) /\ History(msg[t].user_id) = <<>>) =>
               user_messages'[msg[t].user_id] = <<AssistantEntry(response'[t].choices[1])>>
      ]_vars

\* C8 witness: a reset emptied a history that held the user entry of a
\* call still in flight, and the next message of the user was appended.
C8_Witness ==
    \E t, s \in Tasks :
        /\ pc[t] = "create" /\ Len(messages[t]) > Len(History(msg[t].user_id)) + 1
        /\ pc[s] = "create" /\ msg[s].user_id = msg[t].user_id
        /\ user_messages[msg[s].user_id] = <<UserEntry(msg[s].text)>>

\* A new message without text was dispatched to handle_text_message in task t.
NonTextStep(t) == Free(t) /\ ~Free(t)' /\ NotText(msg'[t].text)

\* C9: a message with empty or missing text is answered with the corrective
\* prompt, and handling it leaves the whole store unchanged and issues no
\* typing indicator and no provider call.
C9_NonTextLeavesStore ==
    [][\A t \in Tasks :
        /\ NonTextStep(t) =>
               /\ pc'[t] = "answer" /\ reply'[t] = corrective_prompt
               /\ typing'[t] = 0 /\ messages'[t] = <<>>
               /\ user_messages' = user_messages
        /\ (~Free(t) /\ NotText(msg[t].text) /\ pc'[t] # pc[t]) =>
               /\ pc[t] = "answer" /\ pc'[t] = "done" /\ sent'[t] = 1
               /\ reply[t] = corrective_prompt
               /\ typing[t] = 0 /\ response[t].outcome = "none"
               /\ user_messages' = user_messages
      ]_vars

\* C9 witness: the prompt is about to be sent to a user who has no history,
\* while another user has one.
C9_Witness ==
    \E t \in Tasks :
        /\ pc[t] = "answer" /\ NotText(msg[t].text) /\ reply[t] = corrective_prompt
        /\ msg[t].user_id \notin DOMAIN user_messages
        /\ \E u \in DOMAIN user_messages : user_messages[u] # <<>>

\* C10: after 11 consecutive messages of a user with an empty history, each
\* handled to completion with a successful reply (22 entries appended), the
\* history is the last 10 entries appended: the 5 most recent
\* user/assistant pairs in order.
C10_ElevenMessagesKeepLastTen ==
    \A u \in DOMAIN user_messages :
        (AllFree /\ Len(appended[u]) = 22) =>
            /\ user_messages[u] = SubSeq(appended[u], 13, 22)
            /\ \A i \in 1..5 :
                /\ user_messages[u][2 * i - 1].role = "user"
                /\ user_messages[u][2 * i].role = "assistant"

\* C10 witness: the eleventh exchange of a user is complete.
C10_Witness ==
    \E u \in DOMAIN user_messages :
        AllFree /\ delivered = 11 /\ Len(appended[u]) = 22

\* C11: nothing serializes the handlers of one user: a handler that is
\* about to append its user entry, or whose provider call is about to
\* return, can always do so, whatever other handlers of that user are in
\* flight.
C11_NoPerUserSerialization ==
    \A t \in Tasks :
        /\ pc[t] = "typing" => ENABLED get_ai_response(t)
        /\ pc[t] = "create" => \A resp \in RaceResponses : ENABLED create_returns(t, resp)

\* C11 witness: with every call successful, B's user entry stands between
\* A's user entry and A's assistant entry, and A's reply follows B's reply.
C11_Witness ==
    \E A, B \in Tasks :
        /\ A # B /\ msg[A].user_id = msg[B].user_id
        /\ pc[A] = "answer" /\ pc[B] = "answer"
        /\ msg[A].text # msg[B].text /\ reply[A] # reply[B]
        /\ messages[A] = <<system_message, UserEntry(msg[A].text)>>
        /\ messages[B] = <<system_message, UserEntry(msg[A].text), UserEntry(msg[B].text)>>
        /\ user_messages[msg[A].user_id]
               = << UserEntry(msg[A].text), UserEntry(msg[B].text),
                    AssistantEntry(reply[B]), AssistantEntry(reply[A]) >>

\* Task t took the step, and the user it acted for.
Stepped(t) == pc'[t] # pc[t]
StepUser(t) == IF Free(t) THEN msg'[t].user_id ELSE msg[t].user_id

\* C12: a step of a handler for user u leaves every other user's history
\* as it was (present or absent, and entry for entry).
C12_OnlyOwnHistoryChanges ==
    [][\A t \in Tasks : Stepped(t) =>
        \A v \in Users \ {StepUser(t)} :
            /\ (v \in DOMAIN user_messages') = (v \in DOMAIN user_messages)
            /\ v \in DOMAIN user_messages => user_messages'[v] = user_messages[v]
      ]_vars

\* C12 witness: one user's history was reset while the other user's
\* history, with a call in flight, kept its entries.
C12_Witness ==
    \E t, s \in Tasks :
        /\ pc[t] = "answer" /\ msg[t].text = START
        /\ msg[t].user_id \in DOMAIN user_messages
        /\ user_messages[msg[t].user_id] = <<>>
        /\ pc[s] = "create" /\ msg[s].user_id # msg[t].user_id
        /\ Len(user_messages[msg[s].user_id]) > 1

\* C13: the set of users with a history only grows: a history appears only
\* when get_ai_response appends the first user entry of an unseen user, a
\* reset creates nothing, and no step removes a user.
C13_UsersOnlyGrow ==
    [][/\ DOMAIN user_messages \subseteq DOMAIN user_messages'
       /\ \A t \in Tasks : Stepped(t) =>
            /\ DOMAIN user_messages' # DOMAIN user_messages =>
                   /\ AppendedUser(t)
                   /\ msg[t].user_id \notin DOMAIN user_messages
                   /\ DOMAIN user_messages' = DOMAIN user_messages \cup {msg[t].user_id}
            /\ (StartStep(t) /\ msg'[t].user_id \notin DOMAIN user_messages) =>
                   user_messages' = user_messages
            /\ (StartStep(t) /\ msg'[t].user_id \in DOMAIN user_messages) =>
                   msg'[t].user_id \in DOMAIN user_messages'
      ]_vars

\* C13 witness: a reset for a user who has no history created none, and a
\* reset for the other user left an empty history in the store.
C13_Witness ==
    \E t, s \in Tasks :
        /\ pc[t] = "answer" /\ msg[t].text = START
        /\ msg[t].user_id \notin DOMAIN user_messages
        /\ pc[s] = "answer" /\ msg[s].text = START
        /\ msg[s].user_id \in DOMAIN user_messages
        /\ user_messages[msg[s].user_id] = <<>>

\* C14: when the handlers of a user never overlap and every provider call
\* returns a text, no two adjacent entries of the history have the same
\* role, the history ends with an assistant entry whenever no handler is
\* in flight, and it starts with an assistant entry only after an eviction.
C14_AlternatingRoles ==
    \A u \in DOMAIN user_messages :
        LET h == user_messages[u] IN
        /\ \A i \in 1..(Len(h) - 1) : h[i].role # h[i + 1].role
        /\ (AllFree /\ h # <<>>) => Last(h).role = "assistant"
        /\ (h # <<>> /\ h[1].role = "assistant") => Len(appended[u]) > MAXLEN

\* C14 witness: a full history that starts with an assistant entry, its
\* user entry evicted by the message now in flight.
C14_Witness ==
    \E u \in DOMAIN user_messages, t \in Tasks :
        /\ pc[t] = "create" /\ msg[t].user_id = u
        /\ Len(user_messages[u]) = MAXLEN
        /\ user_messages[u][1].role = "assistant"
        /\ Last(user_messages[u]) = UserEntry(msg[t].text)

\* C15: a reset leaves the other handlers and their calls in flight as they
\* were, and a call that returns text R after the history was emptied
\* appends {assistant, R} to it, which makes the history [assistant(R)].
C15_ResetDoesNotCancelCall ==
    [][\A t \in Tasks :
        /\ StartStep(t) =>
               \A s \in Tasks \ {t} :
                   pc'[s] = pc[s] /\ msg'[s] = msg[s] /\ messages'[s] = messages[s]
        /\ (CallEnded(t) /\ user_messages[msg[t].user_id] = <<>>) =>
               /\ reply'[t] = response'[t].choices[1]
               /\ user_messages'[msg[t].user_id] = <<AssistantEntry(response'[t].choices[1])>>
      ]_vars

\* C15 witness: the reset's welcome is still to be sent, the call that was
\* in flight has returned R, and the history is exactly [assistant(R)].
C15_Witness ==
    \E t, s \in Tasks :
        /\ pc[s] = "answer" /\ msg[s].text = START
        /\ pc[t] = "answer" /\ msg[t].user_id = msg[s].user_id
        /\ reply[t] \in RaceReplies
        /\ Len(messages[t]) >= 2
        /\ user_messages[msg[t].user_id] = <<AssistantEntry(reply[t])>>

\* C16: every request submitted to the provider holds 2 to 11 messages, the
\* system entry first and only there, then at most 10 history entries; and
\* it does not change while the call is in flight, whatever happens to the
\* history.
C16_RequestShapeAndSnapshot ==
    [][\A t \in Tasks :
        /\ pc'[t] = "create" =>
               /\ Len(messages'[t]) >= 2 /\ Len(messages'[t]) <= MAXLEN + 1
               /\ messages'[t][1] = system_message
               /\ \A i \in 2..Len(messages'[t]) : messages'[t][i].role # "system"
        /\ pc[t] = "create" => messages'[t] = messages[t]
      ]_vars

\* C16 witness: a request of 11 messages in flight whose history has since
\* been changed by another handler.
C16_Witness ==
    \E t \in Tasks :
        /\ pc[t] = "create" /\ Len(messages[t]) = MAXLEN + 1
        /\ Tail(messages[t]) # History(msg[t].user_id)

====
